---- MODULE Spec2Model ----
(***************************************************************************)
(* Finance3D: the shared live-price subscription multiplexer               *)
(* (src/hooks/useLiveCryptoPrice.ts) and the dashboard layout manager      *)
(* (FlexibleDashboard, src/unnamed/part_000).                              *)
(*                                                                         *)
(* The multiplexer is module-level mutable state shared by every mounted   *)
(* hook instance; sockets are the third-party transport objects, each with *)
(* the handler closures setupWebSocket installs on it.  JavaScript runs    *)
(* each handler to completion, so one action is one handler (with the      *)
(* promise continuations it releases).                                     *)
(***************************************************************************)
EXTENDS Integers, Sequences, FiniteSets, TLC

\* ------------------------------------------------------------------ bounds
\* Transport objects that may exist at once (a closed one is forgotten).
MaxSockets == 2
\* Transports the far end drops in a row in MuxSpec.
MaxDrops == 1
\* Calls of a hook's reconnect() in one run.
MaxReconnects == 1
\* Trades in one inbound batch.
MaxBatch == 2
\* Widgets on the dashboard.
MaxWidgets == 2
\* Trades handed to one hook between two resets of its buffer.
MaxHanded == 102
\* Unparseable messages on one transport.
MaxParseErrors == 1
\* Readings of Date.now() that differ.
MaxClock == 1
\* Drag and resize gestures (mouse-downs on a card) in one run.
MaxGestures == 2
\* Widgets on the dashboard while gestures are followed (CardSpec).
MaxCards == 1

\* ------------------------------------------------------- program constants
maxReconnectAttempts == 5
\* [...prev, ...trades].slice(-100)
KeepLast == 100
BaseDelayMs == 1000
MaxDelayMs == 30000
\* FlexibleCard's default minWidth and minHeight, which the dashboard keeps.
minWidth == 200
minHeight == 150

\* The hook instances (chart widgets); a hook's listener is its handleTrades.
Hooks == {"h1", "h2"}
\* The tickers the hooks are given in MuxSpec and BackoffSpec, and in FanSpec.
Tickers == {"BTC-USD", "*"}
FanTickers == {"BTC-USD", "ETH-USD", "*"}
\* initialTicker's default, which the ref of a hook holds before its mount
\* effect has run; a hook that is gone and has no continuation left is the
\* same as one never mounted.
DefaultTicker == "BTC-USD"
\* The pair field of inbound trade events.
Pairs == {"BTC-USD", "ETH-USD"}

\* ---------------------------------------------------------------- strings
\* Strings are handled as character sequences; Chars is the spelling table.
Chars(t) ==
    CASE t = "BTC-USD"  -> <<"B", "T", "C", "-", "U", "S", "D">>
      [] t = "ETH-USD"  -> <<"E", "T", "H", "-", "U", "S", "D">>
      [] t = "X:BTCUSD" -> <<"X", ":", "B", "T", "C", "U", "S", "D">>
      [] t = "X:X:BTCUSD" -> <<"X", ":", "X", ":", "B", "T", "C", "U", "S", "D">>
      [] t = "X:BTC-USD" -> <<"X", ":", "B", "T", "C", "-", "U", "S", "D">>
      [] t = "BTCUSD"   -> <<"B", "T", "C", "U", "S", "D">>
      [] t = "BTCUSDT"  -> <<"B", "T", "C", "U", "S", "D", "T">>
      [] t = "BTC"      -> <<"B", "T", "C">>
      [] t = "btc-usd"  -> <<"b", "t", "c", "-", "u", "s", "d">>
      [] t = "btc-usd-USD" -> <<"b", "t", "c", "-", "u", "s", "d", "-", "U", "S", "D">>
      [] t = "btc-USD"  -> <<"b", "t", "c", "-", "U", "S", "D">>
      [] t = "-USD"     -> <<"-", "U", "S", "D">>
      [] t = ""         -> <<>>
      [] t = "*"        -> <<"*">>

KnownStrings ==
    {"BTC-USD", "ETH-USD", "X:BTCUSD", "X:X:BTCUSD", "X:BTC-USD", "BTCUSD",
     "BTCUSDT", "BTC", "btc-usd",
     "btc-usd-USD", "btc-USD", "-USD", "", "*"}

Str(cs) == CHOOSE t \in KnownStrings : Chars(t) = cs

UpperCase ==
    {"A", "B", "C", "D", "E", "F", "G", "H", "I", "J", "K", "L", "M",
     "N", "O", "P", "Q", "R", "S", "T", "U", "V", "W", "X", "Y", "Z"}

EndsWith(s, suf) ==
    /\ Len(s) >= Len(suf)
    /\ SubSeq(s, Len(s) - Len(suf) + 1, Len(s)) = suf

DropLast(s, n) == SubSeq(s, 1, Len(s) - n)

\* String.prototype.replace(pattern, rep) with a string pattern: the first
\* occurrence only.
ReplaceFirst(s, pat, rep) ==
    LET hits == {i \in 1..(Len(s) - Len(pat) + 1) : SubSeq(s, i, i + Len(pat) - 1) = pat}
    IN IF hits = {} THEN s
       ELSE LET i == CHOOSE j \in hits : \A k \in hits : j <= k
            IN SubSeq(s, 1, i - 1) \o rep \o SubSeq(s, i + Len(pat), Len(s))

Includes(s, c) == \E i \in 1..Len(s) : s[i] = c

\* s.split('-')[0]
BeforeDash(s) ==
    IF Includes(s, "-")
    THEN LET i == CHOOSE j \in 1..Len(s) : s[j] = "-" /\ \A k \in 1..(j - 1) : s[k] # "-"
         IN SubSeq(s, 1, i - 1)
    ELSE s

\* /^[A-Z]+-USD$/
IsDashUsd(s) ==
    /\ EndsWith(s, <<"-", "U", "S", "D">>)
    /\ Len(s) >= 5
    /\ \A i \in 1..(Len(s) - 4) : s[i] \in UpperCase

\* formatted.replace(/(USD|USDT)$/, '')
StripQuote(f) ==
    IF EndsWith(f, <<"U", "S", "D">>) THEN DropLast(f, 3)
    ELSE IF EndsWith(f, <<"U", "S", "D", "T">>) THEN DropLast(f, 4)
    ELSE f

\* "Ensure base and quote currencies are correctly separated"
SplitBase(f) ==
    IF ~Includes(f, "-") /\ Len(f) >= 6
    THEN SubSeq(f, 1, 3) \o <<"-">> \o SubSeq(f, 4, Len(f))
    ELSE f

\* "Ensure quote is USD"
EnsureUsd(f) ==
    IF ~EndsWith(f, <<"-", "U", "S", "D">>)
    THEN BeforeDash(f) \o <<"-", "U", "S", "D">>
    ELSE f

convertChars(input) ==
    IF IsDashUsd(input) THEN input
    ELSE IF input = <<"*">> THEN input
    ELSE EnsureUsd(SplitBase(StripQuote(ReplaceFirst(input, <<"X", ":">>, <<>>))))

convertTickerFormat(input) == Str(convertChars(Chars(input)))

\* The canonical symbols the registry can be keyed by.
Symbols == {convertTickerFormat(t) : t \in Tickers \cup FanTickers}

\* subscribeTicker/unsubscribeTicker: 'XT.*' or `XT.${formattedTicker}`.
SubscriptionOf(formattedTicker) == <<"XT", formattedTicker>>


\* --------------------------------------------------------- sequence helpers
Has(seq, x) == \E i \in 1..Len(seq) : seq[i] = x

\* Array.indexOf + splice(index, 1): the first occurrence is removed.
RemoveFirst(seq, x) ==
    IF ~Has(seq, x) THEN seq
    ELSE LET i == CHOOSE j \in 1..Len(seq) : seq[j] = x /\ \A k \in 1..(j - 1) : seq[k] # x
         IN SubSeq(seq, 1, i - 1) \o SubSeq(seq, i + 1, Len(seq))

\* A JavaScript Set keeps insertion order: add and delete on a sequence
\* without repetitions.
SetAdd(seq, x) == IF Has(seq, x) THEN seq ELSE Append(seq, x)
SetDelete(seq, x) == SelectSeq(seq, LAMBDA y : y # x)

Count(seq, x) == Cardinality({i \in 1..Len(seq) : seq[i] = x})

\* ------------------------------------------------------------------- state
VARIABLES
    \* module-level state of useLiveCryptoPrice.ts
    sharedWsClient,        \* 0 (null) or the socket it refers to
    isConnected,
    isAuthenticated,
    currentSubscriptions,  \* array of subscription strings
    connectingPromise,     \* 0 (null) or the socket whose setup promise it is
    pendingSubscriptions,  \* Set of subscription strings, in insertion order
    reconnectAttempts,
    reconnectTimer,        \* 0 (no live timer) or the delay in ms of the pending one
    subscribers,           \* Map: canonical symbol -> Set of listeners
    \* the transport objects and their handler closures
    socks,
    \* the hook instances
    mounted,
    currentTickerRef,
    \* observations of the last handler run
    sent,                  \* frames handed to a transport by the last handler
    delivered,             \* listener calls made by the last onmessage
    failStreak,            \* transport closes with listeners since the last open/reset
    reconnectCalls,        \* calls of reconnect() so far
    repeated,              \* symbols a listener was registered under again
    \* FlexibleDashboard
    widgets,               \* React state of the dashboard
    storage,               \* localStorage['dashboardLayout']: present, and its text
    dashPhase,             \* "unmounted", "mounted"
    saveDue,               \* the save effect of the last render has not run yet
    storedAtMount,         \* what storage held at mount, until the user acts
    clock,                 \* Date.now()
    cards,                 \* the FlexibleCard state of each rendered widget
    gestures,              \* mouse-downs on a card so far
    \* status notifications of the multiplexer
    isAddingNewSubscription, \* the silent-mode flag
    silentTimers,          \* hooks whose 3 s silent-mode timer has not fired yet
    newListener,           \* the hook whose silent subscribe set the flag last
    statusCallbackOf,      \* per transport: the hook whose setStatus its handlers hold
    timerCallback,         \* the same for the closure of the reconnect timer
    notified,              \* hooks whose setStatus the last handler called
    \* the state of each hook instance
    tradeMessages,         \* per hook: the buffer of recent trades
    lastPrice,             \* per hook: p of the latest trade, 0 for null
    handed,                \* per hook: trades handed to handleTrades since the buffer was emptied
    parseErrors,           \* per transport: messages its onmessage dropped in the catch
    typed                  \* per hook: the ticker string the chart is given

muxVars ==
    <<sharedWsClient, isConnected, isAuthenticated, currentSubscriptions,
      connectingPromise, pendingSubscriptions, reconnectAttempts, reconnectTimer,
      subscribers, socks, mounted, currentTickerRef, sent, delivered,
      failStreak, reconnectCalls, repeated>>

dashVars ==
    <<widgets, storage, dashPhase, saveDue, storedAtMount, clock, cards, gestures>>

statusVars ==
    <<isAddingNewSubscription, silentTimers, newListener, statusCallbackOf,
      timerCallback, notified>>

hookVars == <<tradeMessages, lastPrice, handed, parseErrors, typed>>

vars == <<muxVars, dashVars, statusVars, hookVars>>

SockIds == 1..MaxSockets

\* rs is the transport's readyState: "connecting" (0), "open" (1),
\* "closing" (2), "closed" (3); "free" is a slot holding no transport.
\* settled is the closure variable promiseSettled, authAwait says the auth
\* frame is with the server and unanswered, flush that the 500 ms timer of
\* processPendingSubscriptions is pending, upstream is what the server has
\* been asked to stream on this transport, waiters are the reconnect()
\* continuations chained on the setup promise.
FreeSock ==
    [rs |-> "free", settled |-> FALSE, authAwait |-> FALSE, flush |-> FALSE,
     upstream |-> {}, waiters |-> <<>>]

NewSock == [FreeSock EXCEPT !.rs = "connecting"]

NoDelivery == [h \in Hooks |-> <<>>]

\* The module state as one value, so that the functions of the source
\* compose as they do there.
Cur ==
    [sharedWsClient |-> sharedWsClient, isConnected |-> isConnected,
     isAuthenticated |-> isAuthenticated,
     currentSubscriptions |-> currentSubscriptions,
     connectingPromise |-> connectingPromise,
     pendingSubscriptions |-> pendingSubscriptions,
     reconnectAttempts |-> reconnectAttempts, reconnectTimer |-> reconnectTimer,
     subscribers |-> subscribers, socks |-> socks,
     failStreak |-> failStreak,
     sent |-> <<>>, again |-> {}, ret |-> 0, overflow |-> FALSE]

Commit(g) ==
    /\ ~g.overflow
    /\ sharedWsClient' = g.sharedWsClient
    /\ isConnected' = g.isConnected
    /\ isAuthenticated' = g.isAuthenticated
    /\ currentSubscriptions' = g.currentSubscriptions
    /\ connectingPromise' = g.connectingPromise
    /\ pendingSubscriptions' = g.pendingSubscriptions
    /\ reconnectAttempts' = g.reconnectAttempts
    /\ reconnectTimer' = g.reconnectTimer
    /\ subscribers' = g.subscribers
    /\ socks' = g.socks
    /\ failStreak' = g.failStreak
    /\ sent' = g.sent
    /\ repeated' = g.again

Frame(k, action, params) == [sock |-> k, action |-> action, params |-> params]

\* A closed transport is forgotten once no timer closure refers to it.
Forget(g, k) ==
    IF g.socks[k].rs = "closed" /\ ~g.socks[k].flush
    THEN [g EXCEPT !.socks[k] = FreeSock]
    ELSE g

FreeSlots(g) == {k \in SockIds : g.socks[k].rs = "free"}

Pow2(n) == IF n <= 0 THEN 1 ELSE 2 ^ n
Min(a, b) == IF a <= b THEN a ELSE b

\* The delay with the exponent one too high: 2 s for the first attempt.
ReconnectDelayFromAttempts(attempts) ==
    Min(BaseDelayMs * Pow2(attempts), MaxDelayMs)

\* Math.min(1000 * Math.pow(2, reconnectAttempts - 1), 30000)
ReconnectDelay(attempts) == Min(BaseDelayMs * Pow2(attempts - 1), MaxDelayMs)


\* ------------------------------------------------------ the source's functions
SubsOf(g, key) == IF key \in DOMAIN g.subscribers THEN g.subscribers[key] ELSE {}

\* subscribers.size
RegistrySize(g) == Cardinality({k \in DOMAIN g.subscribers : g.subscribers[k] # {}})

\* transport.send(frame) on an open transport
Send(g, k, action, params) ==
    [g EXCEPT !.sent = Append(@, Frame(k, action, params)),
              !.socks[k].upstream =
                  IF action = "subscribe" THEN @ \cup {params}
                  ELSE IF action = "unsubscribe" THEN @ \ {params}
                  ELSE @,
              !.socks[k].authAwait = IF action = "auth" THEN TRUE ELSE @]

\* transport.close(): the close event comes later.  A closing transport
\* dispatches no open and no message event, so its unanswered auth, what
\* the server streams on it, and the continuations of a promise that can now
\* only be rejected have no further effect.
CloseCall(g, k) ==
    [g EXCEPT !.socks[k].rs = "closing",
              !.socks[k].authAwait = FALSE,
              !.socks[k].upstream = {},
              !.socks[k].waiters = <<>>]

LowestFree(g) == CHOOSE j \in FreeSlots(g) : \A i \in FreeSlots(g) : j <= i

\* websocketClient(apiKey).crypto(), and the three assignments around it
CreateSocket(g, k) ==
    [g EXCEPT !.socks[k] = NewSock,
              !.sharedWsClient = k,
              !.connectingPromise = k,
              !.ret = k]

setupWebSocket(g) ==
    IF g.sharedWsClient # 0 /\ g.isConnected
    THEN [g EXCEPT !.ret = -1]                      \* Promise.resolve()
    ELSE IF g.connectingPromise # 0
    THEN [g EXCEPT !.ret = g.connectingPromise]     \* the promise in flight
    ELSE IF FreeSlots(g) = {}
    THEN [g EXCEPT !.overflow = TRUE]
    ELSE CreateSocket(g, LowestFree(g))

\* "If already authenticated and ready, subscribe immediately"
SendNow(g, subscription) ==
    [Send(g, g.sharedWsClient, "subscribe", subscription)
        EXCEPT !.currentSubscriptions = Append(@, subscription),
               !.pendingSubscriptions = SetDelete(@, subscription)]

IsReady(g) ==
    /\ g.isAuthenticated
    /\ g.sharedWsClient # 0
    /\ g.socks[g.sharedWsClient].rs = "open"

\* subscribeTicker from "Add to pending subscriptions" on
QueueOrSend(g, subscription) ==
    IF g.sharedWsClient = 0 /\ g.connectingPromise = 0
    THEN setupWebSocket(g)
    ELSE IF IsReady(g) THEN SendNow(g, subscription)
    ELSE g

\* subscribeTicker without its "already subscribed" return.
SubscribeRegisteredUnchecked(g, subscription) ==
    QueueOrSend([g EXCEPT !.pendingSubscriptions = SetAdd(@, subscription)],
                subscription)

\* subscribeTicker with the connection set up before the "already
\* subscribed" return.
SubscribeRegisteredConnectFirst(g, subscription) ==
    IF g.sharedWsClient = 0 /\ g.connectingPromise = 0
    THEN setupWebSocket(IF Has(g.currentSubscriptions, subscription) THEN g
                        ELSE [g EXCEPT !.pendingSubscriptions = SetAdd(@, subscription)])
    ELSE IF Has(g.currentSubscriptions, subscription) THEN g
    ELSE QueueOrSend([g EXCEPT !.pendingSubscriptions = SetAdd(@, subscription)],
                     subscription)

\* subscribeTicker from "Check if already subscribed" on
SubscribeRegistered(g, subscription) ==
    IF Has(g.currentSubscriptions, subscription) THEN g
    ELSE QueueOrSend([g EXCEPT !.pendingSubscriptions = SetAdd(@, subscription)],
                     subscription)

\* "Add to subscribers map"
Register(g, formattedTicker, callback) ==
    [g EXCEPT !.subscribers[formattedTicker] = @ \cup {callback},
              !.again = IF callback \in g.subscribers[formattedTicker]
                        THEN @ \cup {formattedTicker}
                        ELSE @]

SubscribeFormatted(g, formattedTicker, callback) ==
    SubscribeRegistered(Register(g, formattedTicker, callback),
                        SubscriptionOf(formattedTicker))

subscribeTicker(g, ticker, callback) ==
    SubscribeFormatted(g, convertTickerFormat(ticker), callback)

\* The tail of unsubscribeTicker: "If no more subscribers at all, close WebSocket".
Teardown(g) ==
    IF RegistrySize(g) = 0 /\ g.sharedWsClient # 0
    THEN [CloseCall(g, g.sharedWsClient) EXCEPT
              !.reconnectTimer = 0,
              !.sharedWsClient = 0,
              !.isConnected = FALSE,
              !.isAuthenticated = FALSE,
              !.currentSubscriptions = <<>>,
              !.pendingSubscriptions = <<>>,
              !.reconnectAttempts = 0,
              !.failStreak = 0]
    ELSE g

\* The pending entry is deleted before the listener set is looked at.
DropPending(g, subscription) ==
    [g EXCEPT !.pendingSubscriptions = SetDelete(@, subscription)]

\* The unsubscribe frame sent whether or not other listeners remain.
DropUpstreamAlways(g, formattedTicker, subscription) ==
    IF IsReady(g)
    THEN IF Has(g.currentSubscriptions, subscription)
         THEN [Send(g, g.sharedWsClient, "unsubscribe", subscription)
                  EXCEPT !.currentSubscriptions = RemoveFirst(@, subscription)]
         ELSE g
    ELSE [g EXCEPT !.currentSubscriptions = RemoveFirst(@, subscription)]

\* DropUpstream with the tracking kept when no frame can be sent.
DropUpstreamIfSent(g, formattedTicker, subscription) ==
    IF g.subscribers[formattedTicker] # {} THEN g
    ELSE IF IsReady(g)
    THEN IF Has(g.currentSubscriptions, subscription)
         THEN [Send(g, g.sharedWsClient, "unsubscribe", subscription)
                  EXCEPT !.currentSubscriptions = RemoveFirst(@, subscription)]
         ELSE g
    ELSE g

\* "If no more callbacks for this ticker, unsubscribe from WebSocket"
DropUpstream(g, formattedTicker, subscription) ==
    IF g.subscribers[formattedTicker] # {} THEN g
    ELSE IF IsReady(g)
    THEN IF Has(g.currentSubscriptions, subscription)
         THEN [Send(g, g.sharedWsClient, "unsubscribe", subscription)
                  EXCEPT !.currentSubscriptions = RemoveFirst(@, subscription)]
         ELSE g
    ELSE [g EXCEPT !.currentSubscriptions = RemoveFirst(@, subscription)]

\* "Remove callback from subscribers"
Unregister(g, formattedTicker, callback) ==
    [g EXCEPT !.subscribers[formattedTicker] = @ \ {callback}]

UnsubscribePending(g, formattedTicker, subscription, callback) ==
    IF SubsOf(g, formattedTicker) = {} THEN g            \* if (!callbacks) return
    ELSE Teardown(DropUpstream(Unregister(g, formattedTicker, callback),
                               formattedTicker, subscription))

UnsubscribeFormatted(g, formattedTicker, callback) ==
    UnsubscribePending(DropPending(g, SubscriptionOf(formattedTicker)),
                       formattedTicker, SubscriptionOf(formattedTicker), callback)

unsubscribeTicker(g, ticker, callback) ==
    UnsubscribeFormatted(g, convertTickerFormat(ticker), callback)

\* processPendingSubscriptions(cryptoWS): arms the 500 ms timer.
processPendingSubscriptions(g, k) ==
    IF ~g.isAuthenticated \/ g.socks[k].rs # "open" THEN g
    ELSE [g EXCEPT !.socks[k].flush = TRUE]

\* One pass of the timer body's loop.  A send on a transport that is no
\* longer open either throws (the entry is not recorded) or is discarded
\* silently (the entry is recorded): throws says which.
FlushOne(g, k, subscription, throws) ==
    IF Has(g.currentSubscriptions, subscription) THEN g
    ELSE IF g.socks[k].rs = "open"
    THEN [Send(g, k, "subscribe", subscription)
             EXCEPT !.currentSubscriptions = Append(@, subscription)]
    ELSE IF throws THEN g
    ELSE [g EXCEPT !.currentSubscriptions = Append(@, subscription)]

RECURSIVE FlushEach(_, _, _, _)
FlushEach(g, k, pend, throws) ==
    IF pend = <<>> THEN g
    ELSE FlushEach(FlushOne(g, k, Head(pend), throws), k, Tail(pend), throws)

FlushDone(g, k) ==
    Forget([g EXCEPT !.pendingSubscriptions = <<>>, !.socks[k].flush = FALSE], k)

\* The timer body, over the pending set in insertion order.
flushPending(g, k, throws) ==
    FlushDone(FlushEach(g, k, g.pendingSubscriptions, throws), k)

\* cryptoWS.onopen
onopen(g, k) ==
    Send([g EXCEPT !.socks[k].rs = "open",
                   !.isConnected = TRUE,
                   !.reconnectAttempts = 0,
                   !.failStreak = 0],
         k, "auth", "apiKey")

\* The reconnect branch of onclose.
ScheduleReconnect(g) ==
    IF RegistrySize(g) > 0 /\ g.reconnectAttempts < maxReconnectAttempts
    THEN [g EXCEPT !.reconnectAttempts = @ + 1,
                   !.reconnectTimer = ReconnectDelay(g.reconnectAttempts + 1)]
    ELSE g

\* onclose up to the reconnect branch; a promise still unsettled is
\* rejected, which only reports a status to the reconnect() callers chained
\* on it.
MarkClosed(g, k) ==
    [g EXCEPT !.socks[k].rs = "closed",
              !.socks[k].settled = TRUE,
              !.socks[k].waiters = <<>>,
              !.socks[k].authAwait = FALSE,
              !.socks[k].upstream = {},
              !.isConnected = FALSE,
              !.isAuthenticated = FALSE,
              !.sharedWsClient = 0,
              !.connectingPromise = 0,
              !.failStreak = IF RegistrySize(g) > 0
                             THEN Min(@ + 1, maxReconnectAttempts + 1)
                             ELSE @]

\* cryptoWS.onclose
onclose(g, k) == Forget(ScheduleReconnect(MarkClosed(g, k)), k)

\* The .then of reconnect(): subscribeTicker(currentTickerRef.current, ...),
\* for each caller chained on the promise, in the order they chained.
RECURSIVE RunThen(_, _)
RunThen(g, hs) ==
    IF hs = <<>> THEN g
    ELSE RunThen(subscribeTicker(g, currentTickerRef[Head(hs)], Head(hs)), Tail(hs))

MarkAuthenticated(g, k) ==
    [g EXCEPT !.isAuthenticated = TRUE,
              !.socks[k].authAwait = FALSE,
              !.socks[k].settled = TRUE,
              !.socks[k].waiters = <<>>]

\* onmessage with the auth_success status event; resolve() releases the
\* continuations once the handler has returned.
onAuthSuccess(g, k) ==
    RunThen(processPendingSubscriptions(MarkAuthenticated(g, k), k),
            IF g.socks[k].settled THEN <<>> ELSE g.socks[k].waiters)

\* reconnect(): "Close existing connection if any"
CloseExisting(g) ==
    IF g.sharedWsClient # 0
    THEN [CloseCall(g, g.sharedWsClient) EXCEPT
              !.sharedWsClient = 0,
              !.isConnected = FALSE,
              !.isAuthenticated = FALSE,
              !.connectingPromise = 0]
    ELSE g

\* reconnect(): "Clear any reconnect timer", "Reset reconnect attempts"
ResetBackoff(g) ==
    [g EXCEPT !.reconnectTimer = 0, !.reconnectAttempts = 0, !.failStreak = 0]

\* reconnect(): setupWebSocket(...).then(subscribeTicker(currentTickerRef.current, ...))
ChainThen(g, h) ==
    IF g.overflow THEN g
    ELSE IF g.ret = -1 \/ g.socks[g.ret].settled
    THEN subscribeTicker(g, currentTickerRef[h], h)
    ELSE IF g.socks[g.ret].rs = "closing" THEN g     \* will be rejected
    ELSE [g EXCEPT !.socks[g.ret].waiters = SetAdd(@, h)]

\* The hook's reconnect()
reconnect(g, h) == ChainThen(setupWebSocket(ResetBackoff(CloseExisting(g))), h)

\* onmessage with a batch of trade events: the calls each listener receives,
\* in order.  A trade is its pair and its place in the batch.
TradesOf(batch) == [i \in 1..Len(batch) |-> [pair |-> batch[i], seq |-> i]]

\* The keys of tradesByPair, in insertion order.
RECURSIVE PairOrder(_)
PairOrder(batch) ==
    IF batch = <<>> THEN <<>>
    ELSE LET rest == PairOrder(SubSeq(batch, 1, Len(batch) - 1))
         IN SetAdd(rest, batch[Len(batch)])

PairTrades(batch, pair) == SelectSeq(TradesOf(batch), LAMBDA t : t.pair = pair)

\* The whole batch handed to the pair's listeners, ungrouped.
NotifyPairUngrouped(g, batch, pair, h) ==
    (IF h \in SubsOf(g, pair) THEN <<TradesOf(batch)>> ELSE <<>>)
        \o (IF h \in SubsOf(g, "*") THEN <<PairTrades(batch, pair)>> ELSE <<>>)

\* "Notify subscribers for each pair", then "Also notify wildcard subscribers".
NotifyPair(g, batch, pair, h) ==
    (IF h \in SubsOf(g, pair) THEN <<PairTrades(batch, pair)>> ELSE <<>>)
        \o (IF h \in SubsOf(g, "*") THEN <<PairTrades(batch, pair)>> ELSE <<>>)

RECURSIVE FanOut(_, _, _, _)
FanOut(g, batch, order, h) ==
    IF order = <<>> THEN <<>>
    ELSE NotifyPair(g, batch, Head(order), h) \o FanOut(g, batch, Tail(order), h)

Batches == UNION {[1..n -> Pairs] : n \in 1..MaxBatch}

\* ----------------------------------------------------------------- actions
\* The mount effect of useLiveCryptoPrice(initialTicker).
Mount(h, t) ==
    /\ ~mounted[h]
    /\ mounted' = [mounted EXCEPT ![h] = TRUE]
    /\ currentTickerRef' = [currentTickerRef EXCEPT ![h] = t]
    /\ Commit(subscribeTicker(Cur, t, h))
    /\ delivered' = NoDelivery
    /\ UNCHANGED <<reconnectCalls, dashVars, statusVars, hookVars>>

\* The mount effect's cleanup, on unmount.
Unmount(h) ==
    /\ mounted[h]
    /\ mounted' = [mounted EXCEPT ![h] = FALSE]
    /\ Commit(unsubscribeTicker(Cur, currentTickerRef[h], h))
    /\ currentTickerRef' =
          IF \E k \in SockIds : Has(socks[k].waiters, h) THEN currentTickerRef
          ELSE [currentTickerRef EXCEPT ![h] = DefaultTicker]
    /\ delivered' = NoDelivery
    /\ UNCHANGED <<reconnectCalls, dashVars, statusVars, hookVars>>

\* The hook's subscribe(newTicker).
Subscribe(h, t) ==
    /\ mounted[h]
    /\ t # currentTickerRef[h]
    /\ currentTickerRef' = [currentTickerRef EXCEPT ![h] = t]
    /\ Commit(subscribeTicker(unsubscribeTicker(Cur, currentTickerRef[h], h), t, h))
    /\ delivered' = NoDelivery
    /\ UNCHANGED <<mounted, reconnectCalls, dashVars, statusVars, hookVars>>

\* The mount effect re-run for a new initialTicker prop: cleanup, then effect.
TickerChange(h, t) ==
    /\ mounted[h]
    /\ currentTickerRef' = [currentTickerRef EXCEPT ![h] = t]
    /\ Commit(subscribeTicker(unsubscribeTicker(Cur, currentTickerRef[h], h), t, h))
    /\ delivered' = NoDelivery
    /\ UNCHANGED <<mounted, reconnectCalls, dashVars, statusVars, hookVars>>

\* The hook's reconnect().
Reconnect(h) ==
    /\ mounted[h]
    /\ Commit(reconnect(Cur, h))
    /\ delivered' = NoDelivery
    /\ reconnectCalls' = reconnectCalls + 1
    /\ UNCHANGED <<mounted, currentTickerRef, dashVars, statusVars, hookVars>>

\* The transport opens.
Open(k) ==
    /\ socks[k].rs = "connecting"
    /\ Commit(onopen(Cur, k))
    /\ delivered' = NoDelivery
    /\ UNCHANGED <<mounted, currentTickerRef, reconnectCalls, dashVars, statusVars, hookVars>>

\* The transport's close event: after close(), a failed connect, or a drop.
Close(k) ==
    /\ socks[k].rs \in {"connecting", "open", "closing"}
    /\ Commit(onclose(Cur, k))
    /\ delivered' = NoDelivery
    /\ UNCHANGED <<mounted, currentTickerRef, reconnectCalls, dashVars, statusVars, hookVars>>

\* The server answers the auth frame.
AuthSuccess(k) ==
    /\ socks[k].rs = "open"
    /\ socks[k].authAwait
    /\ Commit(onAuthSuccess(Cur, k))
    /\ delivered' = NoDelivery
    /\ UNCHANGED <<mounted, currentTickerRef, reconnectCalls, dashVars, statusVars, hookVars>>

\* The 500 ms timer of processPendingSubscriptions fires.
FlushTimer(k) ==
    /\ socks[k].flush
    /\ \E throws \in BOOLEAN :
          /\ socks[k].rs = "open" => ~throws
          /\ Commit(flushPending(Cur, k, throws))
    /\ delivered' = NoDelivery
    /\ UNCHANGED <<mounted, currentTickerRef, reconnectCalls, dashVars, statusVars, hookVars>>

\* The reconnect timer fires: setupWebSocket(apiKeyRef, ...).
ReconnectTimer ==
    /\ reconnectTimer # 0
    /\ Commit(setupWebSocket([Cur EXCEPT !.reconnectTimer = 0]))
    /\ delivered' = NoDelivery
    /\ UNCHANGED <<mounted, currentTickerRef, reconnectCalls, dashVars, statusVars, hookVars>>

\* A batch of trade events arrives on an open transport.
Trades(k, batch) ==
    /\ socks[k].rs = "open"
    /\ delivered' = [h \in Hooks |-> FanOut(Cur, batch, PairOrder(batch), h)]
    /\ sent' = <<>>
    /\ repeated' = {}
    /\ UNCHANGED <<sharedWsClient, isConnected, isAuthenticated, currentSubscriptions,
                   connectingPromise, pendingSubscriptions, reconnectAttempts,
                   reconnectTimer, subscribers, socks, mounted,
                   currentTickerRef, failStreak, reconnectCalls, dashVars, statusVars, hookVars>>

\* ------------------------------------------------------ status notifications
\* MuxSpec, BackoffSpec and FanSpec follow the frames and the registry; the
\* status side of the same handlers is followed here.
\* updateAllStatusExceptNew(status, excludeHandler): the hooks whose
\* setStatus is called; statusUpdateHandlers holds the mounted hooks'.
updateAllStatusExceptNew(excludeHandler) ==
    IF isAddingNewSubscription THEN {excludeHandler} \ {"none"}
    ELSE {h \in Hooks : mounted[h]}

\* The mount effect: subscribeTicker(initialTicker, handleTrades, setStatus,
\* true) sets the flag and arms its 3 s timer; a setupWebSocket it makes
\* keeps the hook's setStatus; every path reports a status to the hook.
StatusMount(h, t) ==
    /\ ~mounted[h]
    /\ mounted' = [mounted EXCEPT ![h] = TRUE]
    /\ currentTickerRef' = [currentTickerRef EXCEPT ![h] = t]
    /\ Commit(subscribeTicker(Cur, t, h))
    /\ delivered' = NoDelivery
    /\ isAddingNewSubscription' = TRUE
    /\ silentTimers' = silentTimers \cup {h}
    /\ newListener' = h
    /\ statusCallbackOf' =
          IF sharedWsClient' \notin {0, sharedWsClient}
          THEN [statusCallbackOf EXCEPT ![sharedWsClient'] = h]
          ELSE statusCallbackOf
    /\ notified' = {h}
    /\ UNCHANGED <<reconnectCalls, timerCallback, dashVars, hookVars>>

\* setTimeout(() => { isAddingNewSubscription = false }, 3000)
SilentTimer(h) ==
    /\ h \in silentTimers
    /\ silentTimers' = silentTimers \ {h}
    /\ isAddingNewSubscription' = FALSE
    /\ notified' = {}
    /\ UNCHANGED <<muxVars, dashVars, hookVars, newListener, statusCallbackOf, timerCallback>>

\* onopen: 'Connected' to statusCallback under the flag, else to all.
StatusOpen(k) ==
    /\ socks[k].rs = "connecting"
    /\ Commit(onopen(Cur, k))
    /\ delivered' = NoDelivery
    /\ notified' = updateAllStatusExceptNew(statusCallbackOf[k])
    /\ UNCHANGED <<mounted, currentTickerRef, reconnectCalls, dashVars, hookVars,
                   isAddingNewSubscription, silentTimers, newListener,
                   statusCallbackOf, timerCallback>>

\* onclose of a transport the far end dropped: 'Disconnected' and
\* 'Reconnecting in' to all unless the flag is set; the timer it arms keeps
\* the transport's statusCallback.
StatusClose(k) ==
    /\ socks[k].rs \in {"connecting", "open"}
    /\ failStreak < MaxDrops
    /\ Commit(onclose(Cur, k))
    /\ delivered' = NoDelivery
    /\ notified' = IF isAddingNewSubscription THEN {} ELSE {h \in Hooks : mounted[h]}
    /\ timerCallback' = IF reconnectAttempts' = reconnectAttempts + 1
                        THEN statusCallbackOf[k] ELSE timerCallback
    /\ UNCHANGED <<mounted, currentTickerRef, reconnectCalls, dashVars, hookVars,
                   isAddingNewSubscription, silentTimers, newListener,
                   statusCallbackOf>>

\* onmessage with auth_success: 'Authenticated' to all unless the flag is set.
StatusAuthSuccess(k) ==
    /\ socks[k].rs = "open"
    /\ socks[k].authAwait
    /\ Commit(onAuthSuccess(Cur, k))
    /\ delivered' = NoDelivery
    /\ notified' = IF isAddingNewSubscription THEN {} ELSE {h \in Hooks : mounted[h]}
    /\ UNCHANGED <<mounted, currentTickerRef, reconnectCalls, dashVars, hookVars,
                   isAddingNewSubscription, silentTimers, newListener,
                   statusCallbackOf, timerCallback>>

\* The reconnect timer: setupWebSocket(apiKeyRef, statusCallback,
\* errorCallback) with the callbacks of the transport that closed.
StatusReconnectTimer ==
    /\ reconnectTimer # 0
    /\ Commit(setupWebSocket([Cur EXCEPT !.reconnectTimer = 0]))
    /\ delivered' = NoDelivery
    /\ statusCallbackOf' =
          IF sharedWsClient' \notin {0, sharedWsClient}
          THEN [statusCallbackOf EXCEPT ![sharedWsClient'] = timerCallback]
          ELSE statusCallbackOf
    /\ notified' = IF sharedWsClient' \notin {0, sharedWsClient}
                   THEN updateAllStatusExceptNew(timerCallback) ELSE {}
    /\ UNCHANGED <<mounted, currentTickerRef, reconnectCalls, dashVars, hookVars,
                   isAddingNewSubscription, silentTimers, newListener,
                   timerCallback>>

\* ------------------------------------------------------- the hook's state
\* handleTrades(trades) on the hook state st.  The trades of the model carry
\* distinct prices: p is the trade's place among the trades handed to the
\* hook since its buffer was emptied.
handleTradesKeepFirst(st, trades) ==
    IF trades = <<>> THEN st
    ELSE LET all == st.tradeMessages \o
                    [i \in 1..Len(trades) |->
                        [pair |-> trades[i].pair, p |-> st.handed + i]]
         IN [tradeMessages |-> SubSeq(all, 1, Min(Len(all), KeepLast)),
             lastPrice |-> all[Len(all)].p,
             handed |-> st.handed + Len(trades)]

handleTrades(st, trades) ==
    IF trades = <<>> THEN st
    ELSE LET all == st.tradeMessages \o
                    [i \in 1..Len(trades) |->
                        [pair |-> trades[i].pair, p |-> st.handed + i]]
         IN [tradeMessages |-> SubSeq(all, IF Len(all) > KeepLast THEN Len(all) - KeepLast + 1 ELSE 1,
                                   Len(all)),
             lastPrice |-> all[Len(all)].p,
             handed |-> st.handed + Len(trades)]

\* The calls one inbound message makes to a listener, in order.
RECURSIVE HandleCalls(_, _)
HandleCalls(st, calls) ==
    IF calls = <<>> THEN st
    ELSE HandleCalls(handleTrades(st, Head(calls)), Tail(calls))

\* onmessage with a batch of trade events, and what the listeners do with
\* their calls; the setters of a hook that is gone have no effect.
HookTrades(k, batch) ==
    /\ socks[k].rs = "open"
    /\ delivered' = [h \in Hooks |-> FanOut(Cur, batch, PairOrder(batch), h)]
    /\ sent' = <<>>
    /\ repeated' = {}
    /\ \E next \in {[h \in Hooks |->
                        IF mounted[h]
                        THEN HandleCalls([tradeMessages |-> tradeMessages[h],
                                          lastPrice |-> lastPrice[h],
                                          handed |-> handed[h]], delivered'[h])
                        ELSE [tradeMessages |-> tradeMessages[h],
                              lastPrice |-> lastPrice[h],
                              handed |-> handed[h]]]} :
          /\ \A h \in Hooks : next[h].handed <= MaxHanded
          /\ tradeMessages' = [h \in Hooks |-> next[h].tradeMessages]
          /\ lastPrice' = [h \in Hooks |-> next[h].lastPrice]
          /\ handed' = [h \in Hooks |-> next[h].handed]
    /\ UNCHANGED <<sharedWsClient, isConnected, isAuthenticated, currentSubscriptions,
                   connectingPromise, pendingSubscriptions, reconnectAttempts,
                   reconnectTimer, subscribers, socks, mounted,
                   currentTickerRef, failStreak, reconnectCalls, dashVars,
                   statusVars, parseErrors, typed>>

\* onmessage with data the handler cannot process, ending the whole
\* connection state.
BadMessageBreaks(k) ==
    /\ socks[k].rs = "open"
    /\ parseErrors[k] < MaxParseErrors
    /\ parseErrors' = [parseErrors EXCEPT ![k] = @ + 1]
    /\ delivered' = NoDelivery
    /\ sent' = <<>>
    /\ repeated' = {}
    /\ isAuthenticated' = FALSE
    /\ UNCHANGED <<sharedWsClient, isConnected, currentSubscriptions,
                   connectingPromise, pendingSubscriptions, reconnectAttempts,
                   reconnectTimer, subscribers, socks, mounted,
                   currentTickerRef, failStreak, reconnectCalls, dashVars,
                   statusVars, tradeMessages, lastPrice, handed, typed>>

\* onmessage with data JSON.parse rejects: the catch logs it.
BadMessage(k) ==
    /\ socks[k].rs = "open"
    /\ parseErrors[k] < MaxParseErrors
    /\ parseErrors' = [parseErrors EXCEPT ![k] = @ + 1]
    /\ delivered' = NoDelivery
    /\ sent' = <<>>
    /\ repeated' = {}
    /\ UNCHANGED <<sharedWsClient, isConnected, isAuthenticated, currentSubscriptions,
                   connectingPromise, pendingSubscriptions, reconnectAttempts,
                   reconnectTimer, subscribers, socks, mounted,
                   currentTickerRef, failStreak, reconnectCalls, dashVars,
                   statusVars, tradeMessages, lastPrice, handed, typed>>

\* The hook's subscribe(newTicker), with the state it resets.
HookSubscribe(h, t) ==
    /\ mounted[h]
    /\ t # currentTickerRef[h]
    /\ currentTickerRef' = [currentTickerRef EXCEPT ![h] = t]
    /\ Commit(subscribeTicker(unsubscribeTicker(Cur, currentTickerRef[h], h), t, h))
    /\ delivered' = NoDelivery
    /\ tradeMessages' = [tradeMessages EXCEPT ![h] = <<>>]
    /\ lastPrice' = [lastPrice EXCEPT ![h] = 0]
    /\ handed' = [handed EXCEPT ![h] = 0]
    /\ UNCHANGED <<mounted, reconnectCalls, dashVars, statusVars, parseErrors, typed>>

\* A chart passes its ticker string through convertTickerFormat.
Format(h) ==
    /\ typed' = [typed EXCEPT ![h] = convertTickerFormat(typed[h])]
    /\ delivered' = NoDelivery
    /\ sent' = <<>>
    /\ repeated' = {}
    /\ UNCHANGED <<sharedWsClient, isConnected, isAuthenticated, currentSubscriptions,
                   connectingPromise, pendingSubscriptions, reconnectAttempts,
                   reconnectTimer, subscribers, socks, mounted,
                   currentTickerRef, failStreak, reconnectCalls, dashVars,
                   statusVars, tradeMessages, lastPrice, handed, parseErrors>>

\* -------------------------------------------------------- FlexibleDashboard
WidgetTypes == {"stats", "chart"}

\* WIDGET_TEMPLATES[type].size
TemplateSize(type) ==
    IF type = "stats" THEN [width |-> 300, height |-> 200]
    ELSE [width |-> 500, height |-> 300]

\* WIDGET_TEMPLATES[type].title and .description
TemplateText(type) ==
    IF type = "stats"
    THEN [title |-> "Quick Stats", description |-> "Overview of key metrics"]
    ELSE [title |-> "Performance Chart",
          description |-> "Visual representation of data"]

\* document.getElementById('dashboard-container')?.getBoundingClientRect()
Containers ==
    {[found |-> FALSE, width |-> 0], [found |-> TRUE, width |-> 200],
     [found |-> TRUE, width |-> 1000]}
\* The coordinates a drag reports, and the sizes a resize reports.
DragCoords == {-20, 60}
ResizeTo == {[width |-> 250, height |-> 150]}

Max(a, b) == IF a >= b THEN a ELSE b

\* localStorage.getItem of a key never written returns null.
NoItem == [present |-> FALSE, kind |-> "none", text |-> <<>>]
Item(text) == [present |-> TRUE, kind |-> "widgets", text |-> text]
\* Text under the key that this dashboard did not write: text JSON.parse
\* throws on, the text of a value that is no array (null, an object, a
\* number, a string), and the text of an array whose elements are no
\* widget records.
ForeignKinds == {"unparseable", "value", "array"}
ForeignItem(kind) == [present |-> TRUE, kind |-> kind, text |-> <<>>]

\* JSON.stringify of a widget: the own properties in insertion order, a
\* property whose value is undefined left out.
StringifyWidget(w) ==
    [keys |-> IF w.isMaximized = "undefined"
              THEN <<"type", "title", "description", "size", "id", "position">>
              ELSE <<"type", "title", "description", "size", "id", "position",
                     "isMaximized">>,
     type |-> w.type, title |-> w.title, description |-> w.description,
     width |-> w.size.width, height |-> w.size.height,
     id |-> w.id, x |-> w.position.x, y |-> w.position.y,
     max |-> IF w.isMaximized = "undefined" THEN "" ELSE w.isMaximized]

JSONstringify(ws) == [i \in 1..Len(ws) |-> StringifyWidget(ws[i])]

\* A parse that reads a missing maximized flag as false.
ParseWidgetFlagFalse(t) ==
    [id |-> t.id, type |-> t.type, title |-> t.title,
     description |-> t.description,
     position |-> [x |-> t.x, y |-> t.y],
     size |-> [width |-> t.width, height |-> t.height],
     isMaximized |-> IF Has(t.keys, "isMaximized") THEN t.max ELSE "false"]

\* JSON.parse: a property the text does not hold reads as undefined.
ParseWidget(t) ==
    [id |-> t.id, type |-> t.type, title |-> t.title,
     description |-> t.description,
     position |-> [x |-> t.x, y |-> t.y],
     size |-> [width |-> t.width, height |-> t.height],
     isMaximized |-> IF Has(t.keys, "isMaximized") THEN t.max ELSE "undefined"]

JSONparse(text) == [i \in 1..Len(text) |-> ParseWidget(text[i])]

\* The effects of a commit work on the storage and queue state updates.
\* "Load saved dashboard layout from localStorage on initial render"
\* A text JSON.parse throws on is caught and logged; whatever it returns is
\* passed to setWidgets (bad: the value queued last is no widget collection).
LoadEffect(m) ==
    IF ~m.storage.present \/ m.storage.kind = "unparseable" THEN m
    ELSE IF m.storage.kind = "widgets"
    THEN [m EXCEPT !.queue = Append(@, JSONparse(m.storage.text)), !.bad = FALSE]
    ELSE [m EXCEPT !.queue = Append(@, <<>>), !.bad = TRUE]

\* The save skipped while the collection is empty.
SaveEffectSkipEmpty(m, ws) ==
    IF ws = <<>> THEN m ELSE [m EXCEPT !.storage = Item(JSONstringify(ws))]

\* "Save dashboard layout to localStorage whenever it changes"
SaveEffect(m, ws) == [m EXCEPT !.storage = Item(JSONstringify(ws))]

\* The first commit: nothing queued yet.
FirstCommit(st) == [storage |-> st, queue |-> <<>>, bad |-> FALSE]

\* The effects of the first commit, in declaration order; the render they
\* belong to saw useState's initial [].
MountEffects(m) == SaveEffect(LoadEffect(m), <<>>)

\* The state after the queued updates: the last setWidgets value wins.
Rendered(ws, queue) == IF queue = <<>> THEN ws ELSE queue[Len(queue)]

\* The new widget centred with no lower limit on x.
NewWidgetUnclamped(type, rect, now) ==
    [id |-> now, type |-> type,
     title |-> TemplateText(type).title,
     description |-> TemplateText(type).description,
     position |-> IF rect.found
                  THEN [x |-> (rect.width - TemplateSize(type).width) \div 2,
                        y |-> 100]
                  ELSE [x |-> 50, y |-> 100],
     size |-> TemplateSize(type),
     isMaximized |-> "undefined"]

\* addWidget's newWidget
NewWidget(type, rect, now) ==
    [id |-> now, type |-> type,
     title |-> TemplateText(type).title,
     description |-> TemplateText(type).description,
     position |-> IF rect.found
                  THEN [x |-> Max(0, (rect.width - TemplateSize(type).width) \div 2),
                        y |-> Max(0, 100)]
                  ELSE [x |-> 50, y |-> 100],
     size |-> TemplateSize(type),
     isMaximized |-> "undefined"]

WidgetIds == {widgets[i].id : i \in 1..Len(widgets)}

\* isMaximized={widget.isMaximized}, false when undefined
IsMaximized(w) == w.isMaximized = "true"

\* initialX, initialY, initialWidth, initialHeight of a widget's card
CardProps(w) ==
    [x |-> w.position.x, y |-> w.position.y,
     width |-> w.size.width, height |-> w.size.height]

\* The useState initial values of a card.
NewCard(w) ==
    [x |-> w.position.x, y |-> w.position.y,
     width |-> w.size.width, height |-> w.size.height,
     isDragging |-> FALSE, isResizing |-> FALSE, resizeDirection |-> "null",
     dragStart |-> [elementX |-> 0, elementY |-> 0, width |-> 0, height |-> 0]]

\* "Update internal state when props change": the effect runs when one of
\* the four props differs from the last render's and sets all four.
SyncCard(c, old, new) ==
    IF CardProps(old) = CardProps(new) THEN c
    ELSE [c EXCEPT !.x = new.position.x, !.y = new.position.y,
                   !.width = new.size.width, !.height = new.size.height]

\* The first widget of ws keyed id, 0 when there is none.
KeyIndex(ws, id) ==
    IF \E j \in 1..Len(ws) : ws[j].id = id
    THEN CHOOSE j \in 1..Len(ws) :
            ws[j].id = id /\ \A k \in 1..(j - 1) : ws[k].id # id
    ELSE 0

\* widgets.map(widget => <DraggableWidget key={widget.id} .../>): a card
\* lives as long as its key is rendered and is created with the key.
RenderCards(cs, old, next) ==
    [i \in 1..Len(next) |->
        IF KeyIndex(old, next[i].id) = 0 THEN NewCard(next[i])
        ELSE SyncCard(cs[KeyIndex(old, next[i].id)],
                      old[KeyIndex(old, next[i].id)], next[i])]

\* !w.isMaximized
Negated(b) == IF b = "true" THEN "false" ELSE "true"

\* setWidgets(next) from an event handler: the re-render leaves the save
\* effect due.
Render(cs, next) ==
    /\ widgets' = next
    /\ cards' = RenderCards(cs, widgets, next)
    /\ saveDue' = TRUE
    /\ storedAtMount' = NoItem
    /\ UNCHANGED <<storage, dashPhase, clock, muxVars, statusVars, hookVars>>

SetWidgets(next) == Render(cards, next) /\ UNCHANGED gestures

\* An event handler runs on a mounted dashboard whose effects have run.
Interactive == dashPhase = "mounted" /\ ~saveDue

\* The dashboard mounts: first render, its effects (run twice over when
\* React re-runs mount effects, as StrictMode does in development), and
\* the re-render for the updates they queued.
\* The re-render of a value that is no widget collection throws
\* (widgets.length, widgets.map, widget.size.width) and no error boundary
\* is above the dashboard: React unmounts the tree.
DashboardMount(strict) ==
    /\ dashPhase = "unmounted"
    /\ storedAtMount' = storage
    /\ \E m \in {IF strict
                  THEN MountEffects(MountEffects(FirstCommit(storage)))
                  ELSE MountEffects(FirstCommit(storage))} :
          /\ storage' = m.storage
          /\ dashPhase' = IF m.bad THEN "crashed" ELSE "mounted"
          /\ widgets' = Rendered(<<>>, m.queue)
          /\ cards' = RenderCards(<<>>, <<>>, Rendered(<<>>, m.queue))
          /\ saveDue' = (m.queue # <<>> /\ ~m.bad)
    /\ UNCHANGED <<clock, gestures, muxVars, statusVars, hookVars>>

\* The save effect of a re-render.
SaveEffectRun ==
    /\ dashPhase = "mounted"
    /\ saveDue
    /\ storage' = SaveEffect(FirstCommit(storage), widgets).storage
    /\ saveDue' = FALSE
    /\ UNCHANGED <<widgets, dashPhase, storedAtMount, clock, cards, gestures, muxVars, statusVars, hookVars>>

addWidget(type, rect) ==
    /\ Interactive
    /\ Len(widgets) < MaxWidgets
    /\ SetWidgets(Append(widgets, NewWidget(type, rect, clock)))

removeWidget(id) ==
    /\ Interactive
    /\ id \in WidgetIds
    /\ SetWidgets(SelectSeq(widgets, LAMBDA w : w.id # id))

\* The move storing the coordinates as given.
MovedUnclamped(ws, id, x, y) ==
    [i \in 1..Len(ws) |->
        IF ws[i].id = id
        THEN [ws[i] EXCEPT !.position = [x |-> x, y |-> y]]
        ELSE ws[i]]

\* The collection moveWidget passes to setWidgets, from the widgets of the
\* render its closure belongs to.
Moved(ws, id, x, y) ==
    [i \in 1..Len(ws) |->
        IF ws[i].id = id
        THEN [ws[i] EXCEPT !.position = [x |-> Max(0, x), y |-> Max(0, y)]]
        ELSE ws[i]]

\* The collection resizeWidget passes to setWidgets.
Resized(ws, id, size) ==
    [i \in 1..Len(ws) |->
        IF ws[i].id = id THEN [ws[i] EXCEPT !.size = size] ELSE ws[i]]

moveWidget(id, x, y) ==
    /\ Interactive
    /\ id \in WidgetIds
    /\ SetWidgets(Moved(widgets, id, x, y))

resizeWidget(id, size) ==
    /\ Interactive
    /\ id \in WidgetIds
    /\ SetWidgets(Resized(widgets, id, size))

toggleMaximize(id) ==
    /\ Interactive
    /\ id \in WidgetIds
    /\ SetWidgets([i \in 1..Len(widgets) |->
                      IF widgets[i].id = id
                      THEN [widgets[i] EXCEPT !.isMaximized = Negated(@)]
                      ELSE widgets[i]])

\* ------------------------------------------------------------- FlexibleCard
\* The eight resize handles, and the pointer travel since the mouse-down.
Directions == {"n", "s", "e", "w", "ne", "nw", "se", "sw"}
Deltas == {-400, 120}

\* resizeDirection?.includes(c) holds for the directions Towards(c).
Towards(c) ==
    CASE c = "n" -> {"n", "ne", "nw"}
      [] c = "s" -> {"s", "se", "sw"}
      [] c = "e" -> {"e", "ne", "se"}
      [] c = "w" -> {"w", "nw", "sw"}

\* The extent with no minimum applied.
NewExtentUnclamped(start, grow, shrink, delta, min) ==
    IF shrink THEN start - delta
    ELSE IF grow THEN start + delta
    ELSE start

\* newWidth (newHeight): the start extent, grown by the travel on the east
\* (south) side, shrunk by it on the west (north) side, never under min.
NewExtent(start, grow, shrink, delta, min) ==
    IF shrink THEN Max(min, start - delta)
    ELSE IF grow THEN Max(min, start + delta)
    ELSE start

\* newX (newY): moved by what the extent lost or gained on the west (north).
NewOrigin(origin, start, new, shrink) ==
    IF shrink /\ new # start THEN origin + (start - new) ELSE origin

RectOf(ds, dir, width, height) ==
    [width |-> width, height |-> height,
     x |-> NewOrigin(ds.elementX, ds.width, width, dir \in Towards("w")),
     y |-> NewOrigin(ds.elementY, ds.height, height, dir \in Towards("n"))]

\* handleMouseMove's resize branch: newWidth, newHeight, newX, newY.
ResizeRect(ds, dir, deltaX, deltaY) ==
    RectOf(ds, dir,
           NewExtent(ds.width, dir \in Towards("e"), dir \in Towards("w"),
                     deltaX, minWidth),
           NewExtent(ds.height, dir \in Towards("s"), dir \in Towards("n"),
                     deltaY, minHeight))

\* One pointer: a card takes a mouse-down while no gesture is going on.
Idle == \A j \in 1..Len(cards) : ~cards[j].isDragging /\ ~cards[j].isResizing

DragStartOf(c) ==
    [elementX |-> c.x, elementY |-> c.y, width |-> c.width, height |-> c.height]

handleHeaderMouseDown(i) ==
    /\ Interactive
    /\ Idle
    /\ gestures < MaxGestures
    /\ i \in 1..Len(cards)
    /\ ~IsMaximized(widgets[i])
    /\ cards' = [cards EXCEPT ![i].dragStart = DragStartOf(cards[i]),
                              ![i].isDragging = TRUE]
    /\ gestures' = gestures + 1
    /\ UNCHANGED <<widgets, storage, dashPhase, saveDue, storedAtMount, clock, muxVars, statusVars, hookVars>>

handleResizeStart(i, direction) ==
    /\ Interactive
    /\ Idle
    /\ gestures < MaxGestures
    /\ i \in 1..Len(cards)
    /\ ~IsMaximized(widgets[i])
    /\ cards' = [cards EXCEPT ![i].dragStart = DragStartOf(cards[i]),
                              ![i].isResizing = TRUE,
                              ![i].resizeDirection = direction]
    /\ gestures' = gestures + 1
    /\ UNCHANGED <<widgets, storage, dashPhase, saveDue, storedAtMount, clock, muxVars, statusVars, hookVars>>

\* The drag branch: setX, setY, onMove(newX, newY).
DragMove(i, newX, newY) ==
    Render([cards EXCEPT ![i].x = newX, ![i].y = newY],
           Moved(widgets, widgets[i].id, newX, newY))

\* The resize branch: the four setters, onResize(newWidth, newHeight) and,
\* for a direction with w or n, onMove(newX, newY).  Both callbacks build
\* their collection from the widgets of the same render.
ResizeMove(i, r) ==
    Render([cards EXCEPT ![i].width = r.width, ![i].height = r.height,
                         ![i].x = r.x, ![i].y = r.y],
           Rendered(widgets,
                    <<Resized(widgets, widgets[i].id,
                              [width |-> r.width, height |-> r.height])>>
                    \o (IF cards[i].resizeDirection \in Towards("w") \cup Towards("n")
                        THEN <<Moved(widgets, widgets[i].id, r.x, r.y)>>
                        ELSE <<>>)))

handleMouseMove(i, deltaX, deltaY) ==
    /\ Interactive
    /\ i \in 1..Len(cards)
    /\ ~IsMaximized(widgets[i])
    /\ \/ /\ cards[i].isDragging
          /\ DragMove(i, cards[i].dragStart.elementX + deltaX,
                         cards[i].dragStart.elementY + deltaY)
       \/ /\ ~cards[i].isDragging
          /\ cards[i].isResizing
          /\ ResizeMove(i, ResizeRect(cards[i].dragStart, cards[i].resizeDirection,
                                      deltaX, deltaY))
    /\ UNCHANGED gestures

handleMouseUp ==
    /\ ~Idle
    /\ cards' = [j \in 1..Len(cards) |->
                    [cards[j] EXCEPT !.isDragging = FALSE, !.isResizing = FALSE,
                                     !.resizeDirection = "null"]]
    /\ UNCHANGED <<widgets, storage, dashPhase, saveDue, storedAtMount, clock,
                   gestures, muxVars, statusVars, hookVars>>

\* The page is left or reloaded: the React state is gone, the storage stays.
Reload ==
    /\ Interactive \/ dashPhase = "crashed"
    /\ dashPhase' = "unmounted"
    /\ widgets' = <<>>
    /\ cards' = <<>>
    /\ storedAtMount' = NoItem
    /\ UNCHANGED <<storage, saveDue, clock, gestures, muxVars, statusVars, hookVars>>

\* Something else writes under the key while the dashboard is not on screen.
ForeignWrite(kind) ==
    /\ dashPhase = "unmounted"
    /\ storage' = ForeignItem(kind)
    /\ UNCHANGED <<widgets, dashPhase, saveDue, storedAtMount, clock, cards,
                   gestures, muxVars, statusVars, hookVars>>

\* Date.now() moves on.
Tick ==
    /\ clock < MaxClock
    /\ clock' = clock + 1
    /\ UNCHANGED <<widgets, storage, dashPhase, saveDue, storedAtMount, cards,
                   gestures, muxVars, statusVars, hookVars>>


MuxInit ==
    /\ sharedWsClient = 0
    /\ isConnected = FALSE
    /\ isAuthenticated = FALSE
    /\ currentSubscriptions = <<>>
    /\ connectingPromise = 0
    /\ pendingSubscriptions = <<>>
    /\ reconnectAttempts = 0
    /\ reconnectTimer = 0
    /\ subscribers = [s \in Symbols |-> {}]
    /\ socks = [k \in SockIds |-> FreeSock]
    /\ mounted = [h \in Hooks |-> FALSE]
    /\ currentTickerRef = [h \in Hooks |-> DefaultTicker]
    /\ sent = <<>>
    /\ delivered = NoDelivery
    /\ failStreak = 0
    /\ reconnectCalls = 0
    /\ repeated = {}

DashInit ==
    /\ widgets = <<>>
    /\ storage = NoItem
    /\ dashPhase = "unmounted"
    /\ saveDue = FALSE
    /\ storedAtMount = NoItem
    /\ clock = 0
    /\ cards = <<>>
    /\ gestures = 0

StatusInit ==
    /\ isAddingNewSubscription = FALSE
    /\ silentTimers = {}
    /\ newListener = "none"
    /\ statusCallbackOf = [k \in SockIds |-> "none"]
    /\ timerCallback = "none"
    /\ notified = {}

Init ==
    /\ MuxInit /\ DashInit /\ StatusInit
    /\ tradeMessages = [h \in Hooks |-> <<>>]
    /\ lastPrice = [h \in Hooks |-> 0]
    /\ handed = [h \in Hooks |-> 0]
    /\ parseErrors = [k \in SockIds |-> 0]
    /\ typed = [h \in Hooks |-> DefaultTicker]

\* A transport fails or is dropped by the far end (not closed by us).
Drop(k) ==
    /\ socks[k].rs \in {"connecting", "open"}
    /\ Close(k)

\* The close event of a transport the program closed.
Closed(k) ==
    /\ socks[k].rs = "closing"
    /\ Close(k)

\* The multiplexer under two hooks; the far end drops at most MaxDrops
\* transports in a row (BackoffSpec has the unbounded run).  Inbound trade
\* batches change no module state and are left to FanSpec.
MuxNext ==
    \/ \E h \in Hooks, t \in Tickers : Mount(h, t)
    \/ \E h \in Hooks : Unmount(h)
    \/ \E h \in Hooks, t \in Tickers : Subscribe(h, t)
    \/ \E h \in Hooks, t \in Tickers : TickerChange(h, t)
    \/ \E h \in Hooks : reconnectCalls < MaxReconnects /\ Reconnect(h)
    \/ \E k \in SockIds : Open(k)
    \/ \E k \in SockIds : failStreak < MaxDrops /\ Drop(k)
    \/ \E k \in SockIds : Closed(k)
    \/ \E k \in SockIds : AuthSuccess(k)
    \/ \E k \in SockIds : FlushTimer(k)
    \/ ReconnectTimer

MuxSpec == Init /\ [][MuxNext]_vars

\* The timers the program arms do fire: the 500 ms flush timer of
\* processPendingSubscriptions and the reconnect timer of onclose.
TimersFire ==
    /\ WF_vars(\E k \in SockIds : FlushTimer(k))
    /\ WF_vars(ReconnectTimer)

MuxLiveSpec == MuxSpec /\ TimersFire

\* A far end that may drop every transport: the backoff run to give-up.
BackoffHooks == Hooks

BackoffNext ==
    \/ \E h \in BackoffHooks, t \in Tickers : Mount(h, t)
    \/ \E h \in BackoffHooks : Unmount(h)
    \/ \E h \in BackoffHooks, t \in Tickers : Subscribe(h, t)
    \/ \E h \in BackoffHooks, t \in Tickers : TickerChange(h, t)
    \/ \E h \in BackoffHooks : reconnectCalls < MaxReconnects /\ Reconnect(h)
    \/ \E k \in SockIds : Open(k)
    \/ \E k \in SockIds : Drop(k)
    \/ \E k \in SockIds : Closed(k)
    \/ \E k \in SockIds : AuthSuccess(k)
    \/ \E k \in SockIds : FlushTimer(k)
    \/ ReconnectTimer

BackoffSpec == Init /\ [][BackoffNext]_vars

\* Two hooks over three tickers, a transport that stays up, and inbound
\* trade batches.
FanNext ==
    \/ \E h \in Hooks, t \in FanTickers : Mount(h, t)
    \/ \E h \in Hooks : Unmount(h)
    \/ \E h \in Hooks, t \in FanTickers : Subscribe(h, t)
    \/ \E k \in SockIds : Open(k)
    \/ \E k \in SockIds : Closed(k)
    \/ \E k \in SockIds : AuthSuccess(k)
    \/ \E k \in SockIds : FlushTimer(k)
    \/ ReconnectTimer
    \/ \E k \in SockIds, batch \in Batches : Trades(k, batch)

FanSpec == Init /\ [][FanNext]_vars

\* The dashboard alone.
DashNext ==
    \/ \E strict \in BOOLEAN : DashboardMount(strict)
    \/ SaveEffectRun
    \/ \E type \in WidgetTypes, rect \in Containers : addWidget(type, rect)
    \/ \E id \in 0..MaxClock : removeWidget(id)
    \/ \E id \in 0..MaxClock, x \in DragCoords, y \in DragCoords : moveWidget(id, x, y)
    \/ \E id \in 0..MaxClock, size \in ResizeTo : resizeWidget(id, size)
    \/ \E id \in 0..MaxClock : toggleMaximize(id)
    \/ Reload
    \/ Tick

DashSpec == Init /\ [][DashNext]_vars

\* The dashboard over a storage that other code writes too.
LoadNext ==
    \/ DashNext
    \/ \E kind \in ForeignKinds : ForeignWrite(kind)

LoadSpec == Init /\ [][LoadNext]_vars

\* The dashboard under the pointer: widgets are moved and resized by
\* gestures on their cards only.
CardNext ==
    \/ DashboardMount(FALSE)
    \/ SaveEffectRun
    \/ \E type \in WidgetTypes, rect \in Containers :
          Len(widgets) < MaxCards /\ addWidget(type, rect)
    \/ \E id \in 0..MaxClock : removeWidget(id)
    \/ \E id \in 0..MaxClock : toggleMaximize(id)
    \/ \E i \in 1..MaxCards : handleHeaderMouseDown(i)
    \/ \E i \in 1..MaxCards, direction \in Directions : handleResizeStart(i, direction)
    \/ \E i \in 1..MaxCards, deltaX \in Deltas, deltaY \in Deltas :
          handleMouseMove(i, deltaX, deltaY)
    \/ handleMouseUp
    \/ Tick

CardSpec == Init /\ [][CardNext]_vars

\* Two hooks that mount, a far end that drops, and the status handlers.
StatusNext ==
    \/ \E h \in Hooks, t \in Tickers : StatusMount(h, t)
    \/ \E h \in Hooks : SilentTimer(h)
    \/ \E k \in SockIds : StatusOpen(k)
    \/ \E k \in SockIds : StatusClose(k)
    \/ \E k \in SockIds : StatusAuthSuccess(k)
    \/ \E k \in SockIds : FlushTimer(k)
    \/ StatusReconnectTimer

StatusSpec == Init /\ [][StatusNext]_vars

\* The charts are given ticker strings of any spelling; ConvSpec starts from
\* every choice of them.
ConvInit ==
    /\ MuxInit /\ DashInit /\ StatusInit
    /\ tradeMessages = [h \in Hooks |-> <<>>]
    /\ lastPrice = [h \in Hooks |-> 0]
    /\ handed = [h \in Hooks |-> 0]
    /\ parseErrors = [k \in SockIds |-> 0]
    /\ typed \in [Hooks -> KnownStrings]

\* Two hooks that mount with the strings they are given.
ConvNext ==
    \/ \E h \in Hooks : Format(h)
    \/ \E h \in Hooks :
          convertTickerFormat(typed[h]) \in Symbols /\ Mount(h, typed[h])
    \/ \E h \in Hooks : Unmount(h)
    \/ \E k \in SockIds : Open(k)
    \/ \E k \in SockIds : Closed(k)
    \/ \E k \in SockIds : AuthSuccess(k)
    \/ \E k \in SockIds : FlushTimer(k)

ConvSpec == ConvInit /\ [][ConvNext]_vars

\* One hook, a transport that stays up, and inbound messages: batches of
\* trades of one pair, and messages that do not parse.
HookNext ==
    \/ \E h \in {"h1"}, t \in Tickers : Mount(h, t)
    \/ \E h \in {"h1"}, t \in Tickers : HookSubscribe(h, t)
    \/ \E k \in SockIds : Open(k)
    \/ \E k \in SockIds : AuthSuccess(k)
    \/ \E k \in SockIds : FlushTimer(k)
    \/ \E k \in SockIds, n \in 1..MaxBatch :
          HookTrades(k, [i \in 1..n |-> DefaultTicker])
    \/ \E k \in SockIds : BadMessage(k)

HookSpec == Init /\ [][HookNext]_vars

\* Up to MaxWidgets widgets, moved by header drags only.
DragNext ==
    \/ DashboardMount(FALSE)
    \/ SaveEffectRun
    \/ \E type \in WidgetTypes, rect \in Containers : addWidget(type, rect)
    \/ \E id \in 0..MaxClock : removeWidget(id)
    \/ \E id \in 0..MaxClock : toggleMaximize(id)
    \/ \E i \in 1..MaxWidgets : handleHeaderMouseDown(i)
    \/ \E i \in 1..MaxWidgets, deltaX \in Deltas, deltaY \in Deltas :
          handleMouseMove(i, deltaX, deltaY)
    \/ handleMouseUp
    \/ Tick

DragSpec == Init /\ [][DragNext]_vars

\* ------------------------------------------------------------------ claims
Live(k) == socks[k].rs \in {"connecting", "open"}
LiveSocks == {k \in SockIds : Live(k)}
RegistryEmpty == \A s \in Symbols : subscribers[s] = {}
UnsubscribeFrames(frames, s) ==
    {i \in 1..Len(frames) :
        frames[i].action = "unsubscribe" /\ frames[i].params = SubscriptionOf(s)}
SubscribeFrames(frames, s) ==
    {i \in 1..Len(frames) :
        frames[i].action = "subscribe" /\ frames[i].params = SubscriptionOf(s)}
\* A step in which a transport object is created.
Created == \E k \in SockIds : socks[k].rs = "free" /\ socks'[k].rs = "connecting"

\* C1: at any time at most one transport is open or being opened.
C1_SingleTransport == Cardinality(LiveSocks) <= 1

\* C2: when a listener leaves a symbol that another listener is still
\* registered for, no unsubscribe frame for the symbol is sent, an active
\* subscription stays active and a queued one stays queued (or becomes active).
C2_OthersKeepSubscription ==
    [][\A s \in Symbols, h \in Hooks :
          (h \in subscribers[s] /\ h \notin subscribers'[s] /\ subscribers'[s] # {})
          => /\ UnsubscribeFrames(sent', s) = {}
             /\ Has(currentSubscriptions, SubscriptionOf(s))
                   => Has(currentSubscriptions', SubscriptionOf(s))
             /\ Has(pendingSubscriptions, SubscriptionOf(s))
                   => \/ Has(pendingSubscriptions', SubscriptionOf(s))
                      \/ Has(currentSubscriptions', SubscriptionOf(s))]_vars

\* C3: whenever the registry is empty the connection is torn down: no
\* transport is open or being opened, no reconnect timer is pending, the
\* active list and the pending set are empty and reconnectAttempts is 0.
C3_TornDownWhenEmpty ==
    RegistryEmpty
    => /\ LiveSocks = {}
       /\ sharedWsClient = 0
       /\ reconnectTimer = 0
       /\ currentSubscriptions = <<>>
       /\ pendingSubscriptions = <<>>
       /\ reconnectAttempts = 0

\* What the server has been asked to stream, per transport, and how a frame
\* changes it.
Upstream == [k \in SockIds |-> socks[k].upstream]
AfterFrame(up, f) ==
    [up EXCEPT ![f.sock] = IF f.action = "subscribe" THEN @ \cup {f.params}
                           ELSE IF f.action = "unsubscribe" THEN @ \ {f.params}
                           ELSE @]
\* No frame of the run asks a transport for what it already streams.
RECURSIVE NoRepeatedSubscribe(_, _)
NoRepeatedSubscribe(up, frames) ==
    IF frames = <<>> THEN TRUE
    ELSE /\ Head(frames).action = "subscribe"
               => Head(frames).params \notin up[Head(frames).sock]
         /\ NoRepeatedSubscribe(AfterFrame(up, Head(frames)), Tail(frames))

\* C4: a subscribeTicker call for a listener already registered under the
\* symbol leaves the registration as it was, the subscription at most once in
\* the active list, and sends at most one subscribe frame, none to a
\* transport that already streams the subscription.
C4_RepeatedSubscribeOnce ==
    [][/\ \A s \in Symbols : Count(currentSubscriptions', SubscriptionOf(s)) <= 1
       /\ repeated' # {}
             => /\ NoRepeatedSubscribe(Upstream, sent')
                /\ \A s \in repeated' :
                      /\ subscribers'[s] = subscribers[s]
                      /\ Cardinality(SubscribeFrames(sent', s)) <= 1]_vars

\* C4 witness: the repeated call was the one that sent the subscribe frame.
C4_Witness ==
    /\ "BTC-USD" \in repeated
    /\ SubscribeFrames(sent, "BTC-USD") # {}
    /\ Count(currentSubscriptions, SubscriptionOf("BTC-USD")) = 1

\* A step that starts with unsubscribeTicker(currentTickerRef.current, ...)
\* of hook h: its unmount, its subscribe(), or its mount effect re-run.
UnsubscribeCall(h) ==
    \/ Unmount(h)
    \/ \E t \in Tickers \cup FanTickers : Subscribe(h, t) \/ TickerChange(h, t)
\* The hooks that are the last listener of symbol s, while the connection is
\* Ready.
LastListeners(s) ==
    {h \in Hooks : /\ mounted[h]
                   /\ subscribers[s] = {h}
                   /\ convertTickerFormat(currentTickerRef[h]) = s
                   /\ IsReady(Cur)}
ActiveLastListeners(s) ==
    {h \in LastListeners(s) : Has(currentSubscriptions, SubscriptionOf(s))}

\* C5: while the connection is Ready, the unsubscribe of the last listener
\* of a symbol sends exactly one unsubscribe frame for it; no other step
\* sends one.
C5_OneUnsubscribeFrame ==
    [][\A s \in Symbols :
          IF \E h \in LastListeners(s) : UnsubscribeCall(h)
          THEN Cardinality(UnsubscribeFrames(sent', s)) = 1
          ELSE UnsubscribeFrames(sent', s) = {}]_vars

\* C5 amended: the one frame goes out when the subscription is in the active
\* list; a symbol still only queued gets none.
C5_OneUnsubscribeFrameIfActive ==
    [][\A s \in Symbols :
          IF \E h \in ActiveLastListeners(s) : UnsubscribeCall(h)
          THEN Cardinality(UnsubscribeFrames(sent', s)) = 1
          ELSE UnsubscribeFrames(sent', s) = {}]_vars

\* C5 witness: the last listener of BTC-USD has left and the one frame went out.
C5_Witness ==
    /\ subscribers["BTC-USD"] = {}
    /\ Cardinality(UnsubscribeFrames(sent, "BTC-USD")) = 1
    /\ ~Has(currentSubscriptions, SubscriptionOf("BTC-USD"))

\* A step in which a transport's close event is handled.
CloseStep ==
    \E k \in SockIds : /\ socks[k].rs \in {"connecting", "open", "closing"}
                       /\ socks'[k].rs \in {"closed", "free"}
\* The documented delays of attempts 1 to 5, in ms.
BackoffTable == <<1000, 2000, 4000, 8000, 16000>>

\* C6: the close that is the n-th in a row with listeners registered and
\* without a successful open schedules the reconnect after
\* min(1000 * 2^(n-1), 30000) ms, that is 1, 2, 4, 8, 16 s for n = 1..5;
\* a further close schedules nothing.
C6_BackoffSchedule ==
    [][(CloseStep /\ ~RegistryEmpty)
          => IF failStreak' <= maxReconnectAttempts
             THEN /\ reconnectTimer' = BackoffTable[failStreak']
                  /\ reconnectTimer' = Min(1000 * 2 ^ (failStreak' - 1), 30000)
             ELSE reconnectTimer' = reconnectTimer]_vars

\* C6 witness: the fifth attempt in a row is scheduled, 16 s out.
C6_Witness ==
    /\ failStreak = 5
    /\ reconnectAttempts = 5
    /\ reconnectTimer = 16000

\* Automatic reconnection has given up: the attempt count is used up, the
\* last attempt's transport has closed and no timer is pending.
GaveUp ==
    /\ failStreak > maxReconnectAttempts
    /\ reconnectAttempts = maxReconnectAttempts
    /\ reconnectTimer = 0
    /\ LiveSocks = {}
    /\ sharedWsClient = 0

\* C7: once automatic reconnection has given up, only a reconnect() call
\* creates a transport.
C7_OnlyReconnectReopens ==
    [][(GaveUp /\ Created) => reconnectCalls' # reconnectCalls]_vars

\* A step in which a hook calls subscribeTicker for a subscription that is
\* not in the active list when the call is made.
SubscribesNew ==
    \E h \in Hooks, t \in Tickers :
        \/ /\ Mount(h, t)
           /\ ~Has(currentSubscriptions, SubscriptionOf(convertTickerFormat(t)))
        \/ /\ Subscribe(h, t) \/ TickerChange(h, t)
           /\ ~Has(unsubscribeTicker(Cur, currentTickerRef[h], h).currentSubscriptions,
                   SubscriptionOf(convertTickerFormat(t)))

\* C7 amended: once automatic reconnection has given up, a transport is
\* created only by reconnect() or by the subscribe of a subscription that is
\* not in the active list; while the hooks only unsubscribe or wait, none is.
C7_ReopenOnlyOnDemand ==
    [][(GaveUp /\ Created)
          => \/ reconnectCalls' # reconnectCalls
             \/ SubscribesNew]_vars

\* C7 witness: given up, with a listener still registered.
C7_Witness == GaveUp /\ ~RegistryEmpty

\* The places of pair p's trades in a batch.
Places(batch, p) == {i \in 1..Len(batch) : batch[i] = p}
\* Call c carries exactly pair p's trades of the batch, in batch order.
CarriesPair(c, batch, p) ==
    /\ Len(c) = Cardinality(Places(batch, p))
    /\ \A i \in 1..Len(c) : c[i].pair = p /\ c[i].seq \in Places(batch, p)
    /\ \A i, j \in 1..Len(c) : i < j => c[i].seq < c[j].seq
\* The calls listener h received that carry trades of pair p.
CallsFor(d, h, p) == {i \in 1..Len(d[h]) : \E j \in 1..Len(d[h][i]) : d[h][i][j].pair = p}
FanOutRight(batch, d) ==
    \A h \in Hooks, p \in Pairs :
        IF Places(batch, p) # {} /\ (h \in subscribers[p] \/ h \in subscribers["*"])
        THEN /\ CallsFor(d, h, p) # {}
             /\ \A i \in CallsFor(d, h, p) : CarriesPair(d[h][i], batch, p)
        ELSE CallsFor(d, h, p) = {}

\* C8: of every inbound batch, each pair's trades reach, in batch order,
\* every listener registered for that pair and every wildcard listener, and
\* no listener registered for neither.
C8_FanOut ==
    [][(subscribers' = subscribers /\ socks' = socks)
          => \A k \in SockIds, batch \in Batches :
                Trades(k, batch) => FanOutRight(batch, delivered')]_vars

\* C8 witness: a batch with both pairs reached the wildcard listener whole,
\* pair by pair, and the BTC-USD listener only with the BTC-USD trade.
C8_Witness ==
    /\ subscribers["BTC-USD"] = {"h1"}
    /\ subscribers["*"] = {"h2"}
    /\ Len(delivered["h1"]) = 1
    /\ delivered["h1"][1][1].pair = "BTC-USD"
    /\ Len(delivered["h2"]) = 2

Settled == dashPhase = "mounted" /\ ~saveDue

\* C9: when storage held a saved non-empty collection S at mount, then once
\* the mount effects and the re-render have settled, with no user action,
\* the widget collection is S and storage holds S again.
C9_MountRestoresLayout ==
    (Settled /\ storedAtMount.present /\ storedAtMount.text # <<>>)
    => /\ widgets = JSONparse(storedAtMount.text)
       /\ storage = storedAtMount

\* C10: on a dashboard whose save effect has run, after any mutation,
\* storage holds exactly the serialization of the current collection.
C10_StorageFollowsWidgets ==
    Settled => storage = Item(JSONstringify(widgets))

\* C10 witness: after an add, a clamped move and a maximize, saved.
C10_Witness ==
    /\ Settled
    /\ ~storedAtMount.present
    /\ \E i \in 1..Len(widgets) :
          /\ widgets[i].isMaximized = "true"
          /\ widgets[i].position = [x |-> 0, y |-> 60]
    /\ storage = Item(JSONstringify(widgets))

\* C11: after moveWidget(id, x, y), for any x and y, negative ones included,
\* the position of widget id has x >= 0 and y >= 0, each coordinate being
\* the input or 0 when the input is negative.
C11_MoveClamps ==
    [][\A id \in 0..MaxClock, x \in DragCoords, y \in DragCoords :
          moveWidget(id, x, y)
          => \A i \in 1..Len(widgets') :
                widgets'[i].id = id
                => /\ widgets'[i].position.x >= 0
                   /\ widgets'[i].position.y >= 0
                   /\ widgets'[i].position.x = (IF x < 0 THEN 0 ELSE x)
                   /\ widgets'[i].position.y = (IF y < 0 THEN 0 ELSE y)]_vars

\* C11 witness: a move to a negative x has just been stored as x = 0.
C11_Witness ==
    /\ saveDue
    /\ \E i \in 1..Len(widgets) : widgets[i].position = [x |-> 0, y |-> 60]

\* C12: for every resize gesture, in any of the eight directions and for
\* any pointer travel, the width and height that result (on the card, and
\* in the widget the resize callback reports them to) are never below the
\* configured minimum.
C12_ResizeKeepsMinimum ==
    [][\A i \in 1..Len(cards), deltaX \in Deltas, deltaY \in Deltas :
          (cards[i].isResizing /\ ~cards[i].isDragging
             /\ saveDue' /\ gestures' = gestures
             /\ handleMouseMove(i, deltaX, deltaY))
          => /\ cards'[i].width >= minWidth
             /\ cards'[i].height >= minHeight
             /\ widgets'[i].size.width >= minWidth
             /\ widgets'[i].size.height >= minHeight]_vars

\* C12 witness: a resize that would have gone under the minimum width and
\* height has ended at exactly the minimum.
C12_Witness ==
    \E i \in 1..Len(cards) :
        /\ cards[i].isResizing
        /\ cards[i].width = minWidth /\ cards[i].height = minHeight
        /\ widgets[i].size = [width |-> minWidth, height |-> minHeight]

C14_BadLayoutIgnored ==
    [][(dashPhase = "unmounted" /\ dashPhase' # "unmounted"
          /\ storage.present /\ storage.kind \in ForeignKinds)
       => (dashPhase' = "mounted" /\ widgets' = <<>>)]_vars

\* C15: after any sequence of addWidget and removeWidget calls (two adds
\* within one clock millisecond and adds after a reload included), the
\* widgets of the collection have pairwise distinct ids.
C15_DistinctIds ==
    \A i \in 1..Len(widgets), j \in 1..Len(widgets) :
        i # j => widgets[i].id # widgets[j].id

\* The collection without its k-th widget.
Without(ws, k) == SubSeq(ws, 1, k - 1) \o SubSeq(ws, k + 1, Len(ws))

\* What addWidget(type) appends: the template's fields, centred in the
\* container, at the fallback offset when the container is not found.
BuiltFrom(w, type, rect) ==
    /\ w.type = type
    /\ w.title = TemplateText(type).title
    /\ w.description = TemplateText(type).description
    /\ w.size = TemplateSize(type)
    /\ w.isMaximized = "undefined"
    /\ w.position.y = 100
    /\ w.position.x =
         (IF ~rect.found THEN 50
          ELSE IF rect.width < TemplateSize(type).width THEN 0
          ELSE (rect.width - TemplateSize(type).width) \div 2)

\* C16: addWidget(kind) on a collection of length n gives length n + 1,
\* the existing widgets unchanged and the new one last, built from the
\* kind's template and centred (at the fallback offset when the viewport
\* cannot be measured); removeWidget(id) removes exactly the widget with
\* that id; from the empty collection an add and a remove of the new id
\* give length 1 and then 0.
C16_AddRemove ==
    [][/\ \A type \in WidgetTypes, rect \in Containers :
            addWidget(type, rect)
            => /\ Len(widgets') = Len(widgets) + 1
               /\ SubSeq(widgets', 1, Len(widgets)) = widgets
               /\ BuiltFrom(widgets'[Len(widgets')], type, rect)
       /\ \A id \in 0..MaxClock :
            removeWidget(id)
            => /\ Len(widgets') = Len(widgets) - 1
               /\ \E k \in 1..Len(widgets) :
                     widgets[k].id = id /\ widgets' = Without(widgets, k)]_vars

\* C17: in every state reached from the empty dashboard by addWidget,
\* removeWidget, toggleMaximize and drag and resize gestures, every widget's
\* position.x, position.y, size.width and size.height are non-negative.
C17_NonNegative ==
    \A i \in 1..Len(widgets) :
        /\ widgets[i].position.x >= 0 /\ widgets[i].position.y >= 0
        /\ widgets[i].size.width >= 0 /\ widgets[i].size.height >= 0

\* C17 witness: a card has been dragged left of the origin and its widget's
\* stored x is 0.
C17_Witness ==
    \E i \in 1..Len(widgets) :
        /\ cards[i].isDragging
        /\ cards[i].x < 0
        /\ widgets[i].position.x = 0

\* C18: once a chart's hook has unmounted, its listener is registered under
\* no symbol and is handed no further trades, whatever subscribe() calls,
\* ticker changes and reconnect() calls came before the unmount.
C18_UnmountedUnregistered ==
    \A h \in Hooks :
        ~mounted[h]
        => /\ \A s \in Symbols : h \notin subscribers[s]
           /\ delivered[h] = <<>>

\* Transport k is the shared one, open and authenticated.
ReadyOn(k) == sharedWsClient = k /\ socks[k].rs = "open" /\ isAuthenticated

\* C19: when a reconnection (by the timer after an unexpected close, or by
\* reconnect()) has reached Ready on a new transport, every symbol that was
\* subscribed before (it is in the active list) and still has a listener is
\* eventually subscribed on the new transport, unless its listeners leave
\* or the transport goes first.
C19_ResubscribedAfterReconnect ==
    \A k \in SockIds, s \in Symbols :
        (/\ ReadyOn(k)
         /\ subscribers[s] # {}
         /\ Has(currentSubscriptions, SubscriptionOf(s))
         /\ SubscriptionOf(s) \notin socks[k].upstream)
        ~> \/ SubscriptionOf(s) \in socks[k].upstream
           \/ subscribers[s] = {}
           \/ ~ReadyOn(k)

\* C20: a subscription requested before the connection was Ready (at
\* auth-success its symbol has a listener and is not in the active list) is,
\* while a listener stays registered and the transport stays Ready,
\* eventually sent upstream as a subscribe frame by the flush timer; it is
\* then in the active list and no longer in the pending set.
C20_PendingFlushed ==
    \A k \in SockIds, s \in Symbols :
        (/\ ReadyOn(k)
         /\ socks[k].flush
         /\ subscribers[s] # {}
         /\ ~Has(currentSubscriptions, SubscriptionOf(s)))
        ~> \/ /\ SubscriptionOf(s) \in socks[k].upstream
              /\ Has(currentSubscriptions, SubscriptionOf(s))
              /\ ~Has(pendingSubscriptions, SubscriptionOf(s))
           \/ subscribers[s] = {}
           \/ ~ReadyOn(k)

\* Transport k is open and its auth frame has been answered.
AuthedOn(k) == socks[k].rs = "open" /\ ~socks[k].authAwait

\* The frames a step sends on transport k, in order.
SentOn(k) == SelectSeq(sent', LAMBDA f : f.sock = k)

\* C21: on every transport the auth frame is sent in the open handler and is
\* the first frame sent on it, and no subscribe frame is sent on a transport
\* before that transport's auth-success has been received.
C21_AuthFirst ==
    [][\A k \in SockIds :
          /\ (socks[k].rs = "connecting" /\ socks'[k].rs = "open")
                => (SentOn(k) # <<>> /\ SentOn(k)[1].action = "auth")
          /\ (SentOn(k) # <<>> /\ socks[k].rs # "open")
                => (socks[k].rs = "connecting" /\ SentOn(k)[1].action = "auth")
          /\ \A i \in 1..Len(SentOn(k)) :
                SentOn(k)[i].action = "subscribe"
                => (AuthedOn(k) \/ (socks[k].authAwait /\ AuthedOn(k)'))]_vars

\* Card i is in a resize whose direction includes west or north.
ResizingWestNorth(i) ==
    /\ cards[i].isResizing /\ ~cards[i].isDragging
    /\ cards[i].resizeDirection \in Towards("w") \cup Towards("n")

\* C22: one pointer-move of a resize whose direction includes west or
\* north, which calls the resize callback and then the move callback, leaves
\* the stored widget with both the new size and the new position: the
\* stored geometry is what the card computed for that pointer-move.
C22_ResizeAndMoveBothStored ==
    [][\A i \in 1..Len(cards), deltaX \in Deltas, deltaY \in Deltas :
          (ResizingWestNorth(i) /\ saveDue' /\ gestures' = gestures
             /\ handleMouseMove(i, deltaX, deltaY))
          => /\ widgets'[i].size.width =
                   ResizeRect(cards[i].dragStart, cards[i].resizeDirection,
                              deltaX, deltaY).width
             /\ widgets'[i].size.height =
                   ResizeRect(cards[i].dragStart, cards[i].resizeDirection,
                              deltaX, deltaY).height
             /\ widgets'[i].position.x =
                   Max(0, ResizeRect(cards[i].dragStart, cards[i].resizeDirection,
                                     deltaX, deltaY).x)
             /\ widgets'[i].position.y =
                   Max(0, ResizeRect(cards[i].dragStart, cards[i].resizeDirection,
                                     deltaX, deltaY).y)]_vars

\* C23: during a resize whose direction includes west (north), after every
\* pointer-move the right edge x + width (the bottom edge y + height) of the
\* widget, on its card and in its stored record, is what it was at the start
\* of the gesture, also when the extent is held at the minimum.
C23_FixedEdge ==
    [][\A i \in 1..Len(cards), deltaX \in Deltas, deltaY \in Deltas :
          (ResizingWestNorth(i) /\ saveDue' /\ gestures' = gestures
             /\ handleMouseMove(i, deltaX, deltaY))
          => /\ cards[i].resizeDirection \in Towards("w")
                => /\ cards'[i].x + cards'[i].width =
                         cards[i].dragStart.elementX + cards[i].dragStart.width
                   /\ widgets'[i].position.x + widgets'[i].size.width =
                         cards[i].dragStart.elementX + cards[i].dragStart.width
             /\ cards[i].resizeDirection \in Towards("n")
                => /\ cards'[i].y + cards'[i].height =
                         cards[i].dragStart.elementY + cards[i].dragStart.height
                   /\ widgets'[i].position.y + widgets'[i].size.height =
                         cards[i].dragStart.elementY + cards[i].dragStart.height]_vars

\* C24: while a widget is maximized, a pointer-down on its header or on a
\* resize handle starts no drag or resize session, and its stored position
\* and size do not change, so that toggling maximize off gives back the
\* position and size it had before it was maximized.
C24_MaximizedIsFrozen ==
    [][\A i \in 1..Len(widgets) :
          (/\ IsMaximized(widgets[i])
           /\ Len(widgets') = Len(widgets)
           /\ widgets'[i].id = widgets[i].id)
          => /\ widgets'[i].position = widgets[i].position
             /\ widgets'[i].size = widgets[i].size
             /\ cards'[i].isDragging => cards[i].isDragging
             /\ cards'[i].isResizing => cards[i].isResizing]_vars

\* C25: while the silent-mode flag set by a newly subscribing listener is
\* up, a status notification reaches the status handler of no listener
\* other than the ones whose silent window is still open.
C25_SilentWindow ==
    [][isAddingNewSubscription' => notified' \subseteq silentTimers']_vars

\* The shared transport is in the Ready state of its own life cycle: open,
\* and its auth frame answered.
ConnectionReady == sharedWsClient # 0 /\ AuthedOn(sharedWsClient)

\* C26: subscribe(ticker, listener) registers the listener under the
\* canonical symbol; if the subscription is in the active list no frame is
\* sent; otherwise, if the connection is not yet Ready, the subscription is
\* added to the pending set and no frame is sent; otherwise one subscribe
\* frame is sent, the subscription is added to the active list and removed
\* from the pending set.
C26_Subscribe ==
    [][\A h \in Hooks, t \in Tickers :
          (~mounted[h] /\ mounted'[h] /\ Mount(h, t))
          => /\ h \in subscribers'[convertTickerFormat(t)]
             /\ IF Has(currentSubscriptions, SubscriptionOf(convertTickerFormat(t)))
                THEN /\ sent' = <<>>
                     /\ currentSubscriptions' = currentSubscriptions
                ELSE IF ~ConnectionReady
                THEN /\ sent' = <<>>
                     /\ Has(pendingSubscriptions', SubscriptionOf(convertTickerFormat(t)))
                     /\ currentSubscriptions' = currentSubscriptions
                ELSE /\ sent' = <<Frame(sharedWsClient, "subscribe",
                                        SubscriptionOf(convertTickerFormat(t)))>>
                     /\ currentSubscriptions' =
                           Append(currentSubscriptions,
                                  SubscriptionOf(convertTickerFormat(t)))
                     /\ ~Has(pendingSubscriptions',
                             SubscriptionOf(convertTickerFormat(t)))]_vars

\* C27: when the last listener of a canonical symbol unsubscribes, the
\* symbol's registry entry is deleted and its subscription is in neither the
\* active list nor the pending set afterwards, whether or not an unsubscribe
\* frame went out.
C27_LastListenerLeaves ==
    [][\A h \in Hooks :
          (/\ mounted[h] /\ ~mounted'[h]
           /\ subscribers[convertTickerFormat(currentTickerRef[h])] = {h}
           /\ Unmount(h))
          => /\ subscribers'[convertTickerFormat(currentTickerRef[h])] = {}
             /\ ~Has(currentSubscriptions',
                     SubscriptionOf(convertTickerFormat(currentTickerRef[h])))
             /\ ~Has(pendingSubscriptions',
                     SubscriptionOf(convertTickerFormat(currentTickerRef[h])))]_vars

\* A last listener has just left while another symbol keeps the transport:
\* the unsubscribe frame went out and the symbol is tracked nowhere.
C27_Witness ==
    /\ sharedWsClient # 0
    /\ \E h \in Hooks : ~mounted[h]
    /\ \E i \in 1..Len(sent) :
          /\ sent[i].action = "unsubscribe"
          /\ ~Has(currentSubscriptions, sent[i].params)
          /\ ~Has(pendingSubscriptions, sent[i].params)
          /\ \A s \in Symbols : SubscriptionOf(s) = sent[i].params => subscribers[s] = {}

\* C28: a message that does not parse is dropped: no listener is called, the
\* connection flags, the registry, the active list and the pending set stay
\* as they are, and a batch of trades that arrives later on the same transport
\* is fanned out to the listeners of its pairs.
C28_BadMessageDropped ==
    [][/\ \A k \in SockIds :
             (parseErrors'[k] > parseErrors[k])
             => /\ delivered' = NoDelivery
                /\ UNCHANGED <<sharedWsClient, isConnected, isAuthenticated,
                               connectingPromise, subscribers, socks,
                               currentSubscriptions, pendingSubscriptions,
                               tradeMessages, lastPrice>>
       /\ \A k \in SockIds, n \in 1..MaxBatch :
             (/\ parseErrors[k] > 0
              /\ handed' # handed
              /\ HookTrades(k, [i \in 1..n |-> DefaultTicker]))
             => FanOutRight([i \in 1..n |-> DefaultTicker], delivered')]_vars

\* A batch has just been fanned out on a transport that dropped a message
\* before.
C28_Witness ==
    \E k \in SockIds :
        /\ parseErrors[k] > 0
        /\ sharedWsClient = k
        /\ delivered["h1"] # <<>>
        /\ tradeMessages["h1"] # <<>>

\* C29: whatever batches a hook has been handed, its tradeMessages buffer
\* holds at most 100 entries, and they are the most recent trades handed to
\* it, in arrival order; subscribe(newTicker) empties the buffer and clears
\* the last price.
C29_RecentTrades ==
    [][/\ \A h \in Hooks :
             /\ Len(tradeMessages'[h]) <= 100
             /\ Len(tradeMessages'[h]) = Min(handed'[h], 100)
             /\ \A i \in 1..Len(tradeMessages'[h]) :
                   tradeMessages'[h][i].p = handed'[h] - Len(tradeMessages'[h]) + i
       /\ \A h \in Hooks :
             currentTickerRef'[h] # currentTickerRef[h] /\ mounted[h]
             => tradeMessages'[h] = <<>> /\ lastPrice'[h] = 0]_vars

\* A hook has been handed more than 100 trades since its buffer was emptied.
C29_Witness ==
    /\ handed["h1"] > 100
    /\ Len(tradeMessages["h1"]) = 100
    /\ lastPrice["h1"] = handed["h1"]

\* The spellings of one symbol named by C30.
BtcSpellings == {"X:BTCUSD", "BTCUSD", "BTC-USD"}

\* C30: convertTickerFormat is idempotent on every input, it maps "X:BTCUSD",
\* "BTCUSD" and "BTC-USD" to "BTC-USD", and hooks given different spellings
\* of that symbol share one registry entry and one active subscription.
C30_Idempotent ==
    [][/\ \A h \in Hooks :
             typed'[h] = convertTickerFormat(typed[h])
             => convertTickerFormat(typed'[h]) = typed'[h]
       /\ \A t \in BtcSpellings : convertTickerFormat(t) = "BTC-USD"
       /\ \A h \in Hooks :
             (mounted'[h] /\ currentTickerRef'[h] \in BtcSpellings)
             => h \in subscribers'["BTC-USD"]
       /\ Cardinality({i \in 1..Len(currentSubscriptions') :
                         currentSubscriptions'[i] = SubscriptionOf("BTC-USD")}) <= 1]_vars

====
